---- MODULE Spec2Model ----
(***************************************************************************)
(* Model of lib/anndata/utils.py: make_index_unique (lines 62-121) and     *)
(* convert_dictionary_to_structured_array (lines 145-179).                 *)
(*                                                                         *)
(* A label (a Python str) is a sequence of one-character strings, so that  *)
(* v + join + str(n) is real concatenation and str(n) is the decimal form. *)
(* numpy arrays live in a heap indexed by reference, so that copying and   *)
(* aliasing are distinguishable.  An Index object is a record              *)
(* [id, data]: its identity and the reference of its backing array.        *)
(***************************************************************************)
EXTENDS Integers, Sequences, FiniteSets, TLC

VARIABLES
    op,                           \* which function is being called
    pc,                           \* position in the call: "start", "loop", "done"
    call,                         \* 1: the caller's call, 2: the call on the first result
    heap,                         \* reference -> array of labels
    index,                        \* argument `index` (an Index object)
    join,                         \* argument `join`
    values,                       \* reference of local `values`
    indices_dup,                  \* local `indices_dup` (boolean mask)
    values_dup,                   \* local `values_dup` (its own array)
    values_set,                   \* local `values_set`
    counter,                      \* local `counter` (collections.Counter)
    i,                            \* loop variable of the for loop
    issue_interpretation_warning, \* local flag
    example_colliding_values,     \* local list
    warnings,                     \* warnings emitted by the current call
    ret,                          \* returned Index object (NoIndex before return)
    source,                       \* argument of convert_dictionary_to_structured_array
    arr,                          \* its outcome
    input0,                       \* labels the caller passed to call 1 (observation)
    arg,                          \* labels of `index` when the current call was entered (observation)
    rejected                      \* candidates rejected by the current call, in order (observation)

vars == <<op, pc, call, heap, index, join, values, indices_dup, values_dup,
          values_set, counter, i, issue_interpretation_warning,
          example_colliding_values, warnings, ret, source, arr,
          input0, arg, rejected>>

----------------------------------------------------------------------------
(* Bounds of the model *)

MaxLen == 4        \* longest label sequence of the exhaustive input family
MaxSuffix == 7     \* largest pre-existing suffix in the collision input family
MaxCopies == 2     \* copies of the base label before / after the suffixed block
MaxRejected == 7   \* how many rejected candidates the observation keeps
MaxRows == 3       \* rows of a column
MaxCols == 3       \* width of a two-dimensional column
MaxKeys == 2       \* keys of the source mapping

(* Program constant: `len(example_colliding_values) < 5` *)
ExampleLimit == 5

----------------------------------------------------------------------------
(* Strings *)

Digit == <<"0", "1", "2", "3", "4", "5", "6", "7", "8", "9">>

RECURSIVE Str(_)
Str(n) == IF n < 10 THEN <<Digit[n + 1]>>
          ELSE Str(n \div 10) \o <<Digit[(n % 10) + 1]>>

Range(s) == {s[k] : k \in DOMAIN s}

----------------------------------------------------------------------------
(* pandas / numpy primitives used by make_index_unique *)

IsUniqueNever(s) == FALSE
IsUnique(s) == Cardinality(Range(s)) = Len(s)

DuplicatedKeepLast(s) == [k \in DOMAIN s |-> \E m \in DOMAIN s : m > k /\ s[m] = s[k]]
Duplicated(s) == [k \in DOMAIN s |-> \E m \in DOMAIN s : m < k /\ s[m] = s[k]]

RECURSIVE MaskSelect(_, _)
MaskSelect(s, mask) ==
    IF s = <<>> THEN <<>>
    ELSE LET n == Len(s)
             rest == MaskSelect(SubSeq(s, 1, n - 1), SubSeq(mask, 1, n - 1))
         IN IF mask[n] THEN Append(rest, s[n]) ELSE rest

Rank(mask, k) == Cardinality({m \in 1..k : mask[m]})

MaskAssignNone(s, mask, new) == s
MaskAssign(s, mask, new) ==
    [k \in DOMAIN s |-> IF mask[k] THEN new[Rank(mask, k)] ELSE s[k]]

InitialSetEmpty(vals) == {}
InitialSet(vals) == Range(vals)

CopyAlias(r) == r
Copy(r) == r + 1

ReturnFresh(idx) == [id |-> idx.id + 1, data |-> idx.data]
ReturnSelf(idx) == idx

NewIndex(idx, r) == [id |-> idx.id + 1, data |-> r]

NoIndex == [id |-> 0, data |-> 0]

IncrementShared(c, v) == [w \in DOMAIN c |-> IF w = v THEN
                             1 + (CHOOSE x \in Range(c) : \A y \in Range(c) : y <= x)
                           ELSE c[w]]
IncrementStuck(c, v) == [c EXCEPT ![v] = 1]
Increment(c, v) == [c EXCEPT ![v] = @ + 1]

TentativeNoJoin(v, j, n) == v \o Str(n)
TentativeName(v, j, n) == v \o j \o Str(n)

KeepExampleOffByOne(ex) == Len(ex) <= ExampleLimit
KeepExample(ex) == Len(ex) < ExampleLimit

----------------------------------------------------------------------------
(* Inputs *)

A == <<"a">>
B == <<"b">>

Joins == { <<"-">>, <<>>, <<"1">> }

SmallLabels == { A, B, <<"a", "-", "1">>, <<"a", "-", "2">>, <<"a", "1">>,
                 <<"a", "1", "1">>, <<"b", "-", "1">> }

SmallInputs == UNION { [1..n -> SmallLabels] : n \in 0..MaxLen }

Copies(v, n) == [k \in 1..n |-> v]

SuffixedBlock(S, j) ==
    LET picked == SelectSeq([n \in 1..MaxSuffix |-> n], LAMBDA n : n \in S)
    IN [k \in 1..Len(picked) |-> A \o j \o Str(picked[k])]

LongInputs(j) ==
    { Copies(A, k1) \o SuffixedBlock(S, j) \o Copies(A, k2) :
        k1 \in 0..MaxCopies, k2 \in 0..MaxCopies, S \in SUBSET (1..MaxSuffix) }

Dtypes == {"int64", "float64", "<U1"}
Shapes == { <<n>> : n \in 0..MaxRows } \cup
          { <<n, k>> : n \in 0..MaxRows, k \in 2..MaxCols }
Columns == [dtype : Dtypes, shape : Shapes]
Keys == <<"x", "y", "z">>
Sources == UNION { [1..n -> Columns] : n \in 0..MaxKeys }

----------------------------------------------------------------------------
(* Initial states *)

IdleLocals ==
    /\ values = 0
    /\ indices_dup = <<>>
    /\ values_dup = <<>>
    /\ values_set = {}
    /\ counter = <<>>
    /\ i = 0
    /\ issue_interpretation_warning = FALSE
    /\ example_colliding_values = <<>>
    /\ warnings = <<>>
    /\ ret = NoIndex
    /\ rejected = <<>>
    /\ arr = [status |-> "none"]

InitUnique ==
    /\ op = "make_index_unique"
    /\ join \in Joins
    /\ input0 \in SmallInputs \cup LongInputs(join)
    /\ arg = input0
    /\ heap = (1 :> input0)
    /\ index = [id |-> 1, data |-> 1]
    /\ source = <<>>

InitConvert ==
    /\ op = "convert_dictionary_to_structured_array"
    /\ source \in Sources
    /\ join = <<"-">>
    /\ input0 = <<>>
    /\ arg = <<>>
    /\ heap = (1 :> <<>>)
    /\ index = NoIndex

Init ==
    /\ pc = "start"
    /\ call = 1
    /\ IdleLocals
    /\ (InitUnique \/ InitConvert)

----------------------------------------------------------------------------
(* make_index_unique *)

\* lines 87-88: if index.is_unique: return index
FastPath ==
    /\ op = "make_index_unique" /\ pc = "start"
    /\ IsUnique(heap[index.data])
    /\ ret' = ReturnSelf(index)
    /\ pc' = "done"
    /\ UNCHANGED <<op, call, heap, index, join, values, indices_dup, values_dup,
                   values_set, counter, i, issue_interpretation_warning,
                   example_colliding_values, warnings, source, arr,
                   input0, arg, rejected>>

\* lines 89-97: the locals of the slow path
Setup ==
    /\ op = "make_index_unique" /\ pc = "start"
    /\ ~IsUnique(heap[index.data])
    /\ LET r == Copy(index.data)
           vals == heap[index.data]
           dup == Duplicated(vals)
           vdup == MaskSelect(vals, dup)
       IN /\ values' = r
          /\ heap' = [x \in DOMAIN heap \cup {r} |-> IF x = r THEN vals ELSE heap[x]]
          /\ indices_dup' = dup
          /\ values_dup' = vdup
          /\ values_set' = InitialSet(vals)
          /\ counter' = [v \in Range(vdup) |-> 0]
    /\ i' = 1
    /\ issue_interpretation_warning' = FALSE
    /\ example_colliding_values' = <<>>
    /\ pc' = "loop"
    /\ UNCHANGED <<op, call, index, join, warnings, ret, source, arr,
                   input0, arg, rejected>>

\* lines 100-105: a candidate that is not in values_set is taken
Accept ==
    /\ op = "make_index_unique" /\ pc = "loop"
    /\ i <= Len(values_dup)
    /\ LET v == values_dup[i]
           c == Increment(counter, v)
           tentative_new_name == TentativeName(v, join, c[v])
       IN /\ tentative_new_name \notin values_set
          /\ counter' = c
          /\ values_set' = values_set \cup {tentative_new_name}
          /\ values_dup' = [values_dup EXCEPT ![i] = tentative_new_name]
    /\ i' = i + 1
    /\ UNCHANGED <<op, pc, call, heap, index, join, values, indices_dup,
                   issue_interpretation_warning, example_colliding_values,
                   warnings, ret, source, arr, input0, arg, rejected>>

\* lines 100-102, 106-108: a candidate that is in values_set is rejected
Reject ==
    /\ op = "make_index_unique" /\ pc = "loop"
    /\ i <= Len(values_dup)
    /\ LET v == values_dup[i]
           c == Increment(counter, v)
           tentative_new_name == TentativeName(v, join, c[v])
       IN /\ tentative_new_name \in values_set
          /\ counter' = c
          /\ issue_interpretation_warning' = TRUE
          /\ example_colliding_values' =
                IF KeepExample(example_colliding_values)
                THEN Append(example_colliding_values, tentative_new_name)
                ELSE example_colliding_values
          /\ rejected' = IF Len(rejected) < MaxRejected
                         THEN Append(rejected, tentative_new_name)
                         ELSE rejected
    /\ UNCHANGED <<op, pc, call, heap, index, join, values, indices_dup,
                   values_dup, values_set, i, warnings, ret, source, arr,
                   input0, arg>>

\* lines 110-121: the warning, the write-back and the new Index
Finish ==
    /\ op = "make_index_unique" /\ pc = "loop"
    /\ i > Len(values_dup)
    /\ warnings' = IF issue_interpretation_warning
                   THEN Append(warnings, [join |-> join,
                                          examples |-> example_colliding_values])
                   ELSE warnings
    /\ heap' = [heap EXCEPT ![values] = MaskAssign(heap[values], indices_dup, values_dup)]
    /\ ret' = NewIndex(index, values)
    /\ pc' = "done"
    /\ UNCHANGED <<op, call, index, join, values, indices_dup, values_dup,
                   values_set, counter, i, issue_interpretation_warning,
                   example_colliding_values, source, arr, input0, arg, rejected>>

\* the caller passes the result of the first call to a second call, same join
Reapply ==
    /\ op = "make_index_unique" /\ pc = "done" /\ call = 1
    /\ call' = 2
    /\ index' = ret
    /\ arg' = heap[ret.data]
    /\ pc' = "start"
    /\ values' = 0
    /\ indices_dup' = <<>>
    /\ values_dup' = <<>>
    /\ values_set' = {}
    /\ counter' = <<>>
    /\ i' = 0
    /\ issue_interpretation_warning' = FALSE
    /\ example_colliding_values' = <<>>
    /\ warnings' = <<>>
    /\ rejected' = <<>>
    /\ ret' = NoIndex
    /\ UNCHANGED <<op, heap, join, source, arr, input0>>

----------------------------------------------------------------------------
(* convert_dictionary_to_structured_array *)

names == [k \in DOMAIN source |-> Keys[k]]

\* line 150: col[0] of a column without rows raises IndexError
ColsRaise == \E k \in DOMAIN source : source[k].shape[1] = 0

\* line 167: c.shape[1] of a one-dimensional column raises IndexError
DtypeListRaises == \E k \in DOMAIN source : Len(source[k].shape) < 2

dtype_list == [k \in DOMAIN source |->
                 [name |-> names[k], dtype |-> source[k].dtype,
                  shape |-> <<source[k].shape[2]>>]]

\* line 177: a column is assigned to its field if it broadcasts to len(cols[0]) rows
Broadcasts == \A k \in DOMAIN source :
                 source[k].shape[1] \in {1, source[1].shape[1]}

ConvertOutcome ==
    IF ColsRaise THEN [status |-> "IndexError"]
    ELSE IF DtypeListRaises THEN [status |-> "IndexError"]
    ELSE IF source = <<>> THEN [status |-> "IndexError"]
    ELSE IF ~Broadcasts THEN [status |-> "ValueError"]
    ELSE [status |-> "ok", length |-> source[1].shape[1], fields |-> dtype_list]

\* lines 145-179
Convert ==
    /\ op = "convert_dictionary_to_structured_array" /\ pc = "start"
    /\ arr' = ConvertOutcome
    /\ pc' = "done"
    /\ UNCHANGED <<op, call, heap, index, join, values, indices_dup, values_dup,
                   values_set, counter, i, issue_interpretation_warning,
                   example_colliding_values, warnings, ret, source,
                   input0, arg, rejected>>

----------------------------------------------------------------------------

Next == FastPath \/ Setup \/ Accept \/ Reject \/ Finish \/ Reapply \/ Convert

Spec == Init /\ [][Next]_vars

\* a call that has started keeps executing until it returns
FairSpec == Spec /\ WF_vars(Next)

----------------------------------------------------------------------------
(* Properties *)

Done == op = "make_index_unique" /\ pc = "done"

Out == heap[ret.data]

Distinct(s) == \A p, q \in DOMAIN s : p # q => s[p] # s[q]

FirstOccurrence(s, p) == \A q \in 1..(p - 1) : s[q] # s[p]

DupPositions(s) == {p \in DOMAIN s : ~FirstOccurrence(s, p)}

Min(x, y) == IF x < y THEN x ELSE y

\* C1: the result of a call has the length of its input and pairwise
\* distinct elements, whatever the labels and the join string.
C1_UniqueSameLength ==
    Done => Len(Out) = Len(arg) /\ Distinct(Out)

C1_Witness ==
    Done /\ call = 1 /\ ~Distinct(arg) /\ rejected # <<>> /\ Distinct(Out)

\* C2: a call on a sequence without duplicates (the empty one included)
\* returns the very Index it was given, its labels unchanged, and warns not.
C2_FastPathIdentity ==
    (Done /\ Distinct(arg)) =>
        /\ ret = index
        /\ Out = arg
        /\ warnings = <<>>

C2_Witness ==
    Done /\ call = 1 /\ Distinct(arg) /\ Len(arg) >= 2 /\ ret = index

\* C3: every position holding the first occurrence of its value keeps its
\* label; a position is renamed only if its value occurred earlier; the
\* positions keep their order (same length, position by position).
C3_FirstOccurrenceKept ==
    Done =>
        /\ Len(Out) = Len(arg)
        /\ \A p \in DOMAIN arg : FirstOccurrence(arg, p) => Out[p] = arg[p]
        /\ \A p \in DOMAIN arg : Out[p] # arg[p] => \E q \in 1..(p - 1) : arg[q] = arg[p]

C3_Witness ==
    /\ Done /\ call = 1
    /\ \E p, q \in DOMAIN arg : p < q /\ ~FirstOccurrence(arg, p)
                                 /\ FirstOccurrence(arg, q) /\ Out[p] # arg[p]

\* C4: idempotence - the second call, applied with the same join to the
\* result of the first, returns that result unchanged.
C4_Idempotent ==
    (Done /\ call = 2) => (Out = arg /\ heap[index.data] = arg /\ rejected = <<>>)

C4_Witness ==
    Done /\ call = 2 /\ ~Distinct(input0) /\ arg # input0 /\ Out = arg

\* C5: an output label that differs from the input label at its position
\* is that input label, then the join string, then the decimal form of an
\* integer that is at least 1.
C5_RenamedForm ==
    Done =>
        \A p \in DOMAIN arg :
            Out[p] # arg[p] =>
                \E n \in 1..(2 * Len(arg)) : Out[p] = arg[p] \o join \o Str(n)

C5_Witness ==
    Done /\ call = 1 /\ join # <<>>
         /\ \E p \in DOMAIN arg : Out[p] = arg[p] \o join \o Str(10)

\* C6: a call warns exactly once if it rejected a candidate and not at all
\* otherwise; the warning lists the first rejected candidates, in the order
\* of their rejection, and at most 5 of them.
C6_SingleWarning ==
    op = "make_index_unique" =>
        /\ pc # "done" => warnings = <<>>
        /\ pc = "done" =>
              IF rejected = <<>> THEN warnings = <<>>
              ELSE /\ Len(warnings) = 1
                   /\ warnings[1].join = join
                   /\ warnings[1].examples = SubSeq(rejected, 1, Min(5, Len(rejected)))

C6_Witness ==
    Done /\ Len(rejected) >= 6 /\ Len(warnings) = 1 /\ Len(warnings[1].examples) = 5

\* C7: every call terminates and returns an Index: the retry loop of each
\* duplicate position ends after finitely many increments of the counter.
C7_Terminates ==
    (op = "make_index_unique" /\ pc = "start") ~> (pc = "done" /\ ret # NoIndex)

C7_Witness ==
    Done /\ call = 1 /\ Len(rejected) >= 2 /\ \E v \in DOMAIN counter : counter[v] >= 4

\* C8: on a mapping of equal-length one-dimensional numeric columns the
\* conversion returns a structured array of the columns' length with one
\* field per key, in key order, each of the numeric type of its column.
OneDimNumeric ==
    /\ source # <<>>
    /\ \A k \in DOMAIN source :
          /\ source[k].dtype \in {"int64", "float64"}
          /\ Len(source[k].shape) = 1
          /\ source[k].shape[1] >= 1
          /\ source[k].shape[1] = source[1].shape[1]

C8_OneDimColumns ==
    (op = "convert_dictionary_to_structured_array" /\ pc = "done" /\ OneDimNumeric) =>
        /\ arr.status = "ok"
        /\ arr.length = source[1].shape[1]
        /\ Len(arr.fields) = Len(source)
        /\ \A k \in DOMAIN source : /\ arr.fields[k].name = Keys[k]
                                    /\ arr.fields[k].dtype = source[k].dtype

\* C9: duplicate positions are handled in input order with one counter per
\* original label, starting at 0 and never reset: the suffix written at a
\* duplicate position is the smallest n above the last value tried for its
\* label such that label+join+n is neither an input label nor a label
\* generated earlier in the call; ["a","a","a-1"] with "-" gives
\* ["a","a-2","a-1"].
EarlierSame(s, p) == {q \in 1..(p - 1) : s[q] = s[p] /\ ~FirstOccurrence(s, q)}

LastSame(s, p) == CHOOSE q \in EarlierSame(s, p) : \A r \in EarlierSame(s, p) : r <= q

UsedBefore(p) == Range(arg) \cup {Out[q] : q \in {r \in DupPositions(arg) : r < p}}

SuffixAt(p, n) == Out[p] = arg[p] \o join \o Str(n)

LastTried(p, m) == IF EarlierSame(arg, p) = {} THEN m = 0
                   ELSE SuffixAt(LastSame(arg, p), m)

C9_SmallestFreeSuffix ==
    (Done /\ call = 1) =>
        /\ \A p \in DupPositions(arg) :
              \E n \in 1..(2 * Len(arg)), m \in 0..(2 * Len(arg)) :
                  /\ LastTried(p, m)
                  /\ SuffixAt(p, n)
                  /\ n > m
                  /\ arg[p] \o join \o Str(n) \notin UsedBefore(p)
                  /\ \A x \in (m + 1)..(n - 1) : arg[p] \o join \o Str(x) \in UsedBefore(p)
        /\ (arg = <<A, A, <<"a", "-", "1">> >> /\ join = <<"-">>)
              => Out = <<A, <<"a", "-", "2">>, <<"a", "-", "1">> >>

C9_Witness ==
    /\ Done /\ call = 1
    /\ \E p, q \in DupPositions(arg) :
          /\ p < q /\ arg[p] # arg[q]
          /\ SuffixAt(p, 2) /\ SuffixAt(q, 1)

\* C10: a call never modifies its input - the caller's sequence holds the
\* same labels at the same positions throughout and after the call, and
\* the renamed labels are in the returned sequence only.
C10_InputUntouched ==
    op = "make_index_unique" =>
        /\ heap[1] = input0
        /\ heap[index.data] = arg

C10_Witness ==
    Done /\ call = 1 /\ Out # arg /\ heap[index.data] = arg /\ ret.data # index.data

====
